---- MODULE Spec2Model ----
(***************************************************************************)
(* Model of the booking-feed enrichment pipeline of src/src/main.rs:       *)
(* main opens four files, prepare_hotels and prepare_room_names build the  *)
(* two reference mappings, process_input joins every primary record with   *)
(* them and store_output serialises the surviving records.                 *)
(*                                                                         *)
(* Abstractions: an f32 price is an exact rational (binary rounding error  *)
(* of f32 is not modelled); a u32 is a pair <<high, low>> of 16-bit halves *)
(* so that 2^32 - 1 and the overflow of adults + children are             *)
(* representable; a text is a sequence of one-character strings where the  *)
(* code manipulates it, and an atom otherwise; I/O errors after the files  *)
(* were opened are not modelled.                                           *)
(***************************************************************************)
EXTENDS Integers, Sequences, FiniteSets, TLC

VARIABLES
    canOpen,      \* environment: which of the four paths can be opened/created
    pc,           \* position of main: a stage of MainSequence, "done" or "panicked"
    opened,       \* files opened so far by main
    hotelLines,   \* lines prepare_hotels has read (forgotten once both tables are loaded)
    hotels,       \* HashMap<String, Hotel>
    roomLines,    \* records prepare_room_names has read (forgotten once it returns)
    fieldCount,   \* csv reader of the room file: first_field_count (0 = None)
    rooms,        \* HashMap<RoomKey, String>
    eof,          \* streams read to exhaustion
    inputRead,    \* primary records read so far by the csv reader of process_input
    processed,    \* items yielded so far by the iterator process_input returns
    output,       \* lines handed to the csv writer of store_output
    flushed,      \* writer.into_inner() was called
    diag          \* diagnostics printed by the last step

vars == <<canOpen, pc, opened, hotelLines, hotels, roomLines, fieldCount, rooms,
          eof, inputRead, processed, output, flushed, diag>>

\* ---------------------------------------------------------------- bounds
MaxHotelLines == 2
MaxRoomLines == 2
MaxInputLines == 2

\* ---------------------------------------------------------------- u32
Half == 65536

U32(n) == <<n \div Half, n % Half>>

U32Max == <<Half - 1, Half - 1>>

\* a + b on u32: the wrapped sum and whether the addition overflowed
AddU32(a, b) ==
    LET low == a[2] + b[2]
        high == a[1] + b[1] + (low \div Half)
    IN [overflow |-> high >= Half, sum |-> <<high % Half, low % Half>>]

\* ---------------------------------------------------------------- texts
DigitChars == <<"0", "1", "2", "3", "4", "5", "6", "7", "8", "9">>

RECURSIVE Display(_)
\* format!("{}", n) of a non-negative integer
Display(n) ==
    IF n < 10 THEN <<DigitChars[n + 1]>>
    ELSE Display(n \div 10) \o <<DigitChars[(n % 10) + 1]>>

\* ---------------------------------------------------------------- f32
\* A price is NaN, +infinity or the rational n / (100 * d), d a u32 > 0.
NaN == [k |-> "nan", n |-> 0, d |-> U32(0)]
Inf == [k |-> "inf", n |-> 0, d |-> U32(0)]
Fin(n, d) == [k |-> "fin", n |-> n, d |-> d]

\* input.price / (pax as f32), input.price given in hundredths
FDiv(cents, pax) ==
    IF pax = U32(0) THEN (IF cents = 0 THEN NaN ELSE Inf)
    ELSE Fin(cents, pax)

\* (price * 100.0).round() of a finite price: f32::round rounds half away from zero
Round100(price) ==
    IF price.d[1] = 0
    THEN (2 * price.n + price.d[2]) \div (2 * price.d[2])
    ELSE 0  \* d >= 2^16 and the prices read are below 2^15 hundredths: n / d < 1/2

\* format!("{}", fpval)
DisplayF32(price) ==
    CASE price.k = "nan" -> <<"N", "a", "N">>
      [] price.k = "inf" -> <<"i", "n", "f">>
      [] OTHER -> Display(Round100(price))

serialize_price(price) ==
    LET s == DisplayF32(price)
    IN IF Len(s) < 2 THEN [panic |-> TRUE, s |-> <<>>]
       ELSE [panic |-> FALSE,
             s |-> SubSeq(s, 1, Len(s) - 2) \o <<".">> \o SubSeq(s, Len(s) - 1, Len(s))]

\* format!("{:.1}", category), category given in tenths
FormatCategory(tenths) == Display(tenths \div 10) \o <<".">> \o Display(tenths % 10)

\* ---------------------------------------------------------------- dates
IsLeap(y) == (y % 4 = 0 /\ y % 100 # 0) \/ y % 400 = 0

DaysIn(y, m) ==
    IF m = 2 THEN (IF IsLeap(y) THEN 29 ELSE 28)
    ELSE IF m \in {4, 6, 9, 11} THEN 30 ELSE 31

\* chrono::NaiveDate::parse_from_str(val, "%Y%m%d")
deserialize_checkin(val) ==
    LET y == val \div 10000
        m == (val \div 100) % 100
        d == val % 100
    IN IF m \in 1..12 /\ d >= 1 /\ d <= DaysIn(y, m)
       THEN [ok |-> TRUE, date |-> [y |-> y, m |-> m, d |-> d]]
       ELSE [ok |-> FALSE, date |-> [y |-> 0, m |-> 0, d |-> 0]]

\* NaiveDate::succ
Succ(date) ==
    IF date.d < DaysIn(date.y, date.m) THEN [date EXCEPT !.d = date.d + 1]
    ELSE IF date.m < 12 THEN [y |-> date.y, m |-> date.m + 1, d |-> 1]
    ELSE [y |-> date.y + 1, m |-> 1, d |-> 1]

\* ---------------------------------------------------------------- input values
Files == {"input", "output", "hotels", "rooms"}

HotelIds == {"H1", "H2"}

HotelFields == {"id", "name", "category", "city"}

\* A line of the hotel file is a JSON object: a function from field names to values
\* (category in tenths). The last one lacks two of the fields of struct Hotel.
HotelLineSet ==
    {[id |-> "H1", name |-> "Grand", category |-> 45, city |-> "Paris"],
     [id |-> "H1", name |-> "Plaza", category |-> 30, city |-> "Rome"],
     [id |-> "H2", name |-> "Plaza", category |-> 30, city |-> "Rome"],
     [id |-> "H1", name |-> "Grand"]}

\* A record of the room-name file is the sequence of its fields. The last one
\* lacks the room code.
RoomLineSet ==
    {<<"H1", "SRC1", "Double Room", "101">>,
     <<"H1", "SRC1", "Twin Room", "101">>,
     <<"H2", "SRC1", "Twin Room", "101">>,
     <<"H1", "SRC1", "Double Room">>}

Prices == {5, 100}

\* A record of the primary file, by header name; checkin is the number written
\* as YYYYMMDD, price is in hundredths. The last one has a checkin that is no date.
InputLineSet ==
    [city_code : {"PAR"}, hotel_code : HotelIds, room_type : {"DBL"},
     room_code : {"101"}, meal : {"BB"}, checkin : {20231231},
     adults : {U32(0), U32(1), U32Max}, children : {U32(0), U32(1)},
     price : Prices, source : {"SRC1"}]
    \cup {[city_code |-> "PAR", hotel_code |-> "H1", room_type |-> "DBL",
           room_code |-> "101", meal |-> "BB", checkin |-> 20240230,
           adults |-> U32(1), children |-> U32(0), price |-> 100, source |-> "SRC1"]}

EmptyMap == [k \in {} |-> 0]

\* HashMap::insert: an existing entry of the key is replaced
Insert(map, key, value) ==
    [k \in (DOMAIN map) \cup {key} |-> IF k = key THEN value ELSE map[k]]

\* ---------------------------------------------------------------- prepare_hotels
\* serde_json::from_str::<Hotel>(&line)
ParseHotel(line) ==
    IF HotelFields \subseteq DOMAIN line
    THEN [ok |-> TRUE, item |-> [f \in HotelFields |-> line[f]]]
    ELSE [ok |-> FALSE, item |-> [f \in HotelFields |-> 0]]

\* a collect that keeps the first entry of an id (entry().or_insert)
CollectHotelKeepFirst(map, item) ==
    IF item.id \in DOMAIN map THEN map ELSE Insert(map, item.id, item)

\* the collect() of prepare_hotels, one item at a time
CollectHotel(map, item) == Insert(map, item.id, item)

\* ---------------------------------------------------------------- prepare_room_names
\* csv::Reader (flexible = false, has_headers = false): the first record read fixes
\* the number of fields, a record of another length is Err(UnequalLengths)
ReadRoomRecord(count, line) ==
    [count |-> IF count = 0 THEN Len(line) ELSE count,
     ok |-> count = 0 \/ Len(line) = count]

\* deserialization of a header-less record into struct RoomName, by position
ParseRoomName(line) ==
    IF Len(line) = 4
    THEN [ok |-> TRUE,
          item |-> [hotel_code |-> line[1], source |-> line[2],
                    room_name |-> line[3], room_code |-> line[4]]]
    ELSE [ok |-> FALSE,
          item |-> [hotel_code |-> "", source |-> "", room_name |-> "", room_code |-> ""]]

RoomKey(hotel_code, source, room_code) ==
    [hotel_code |-> hotel_code, source |-> source, room_code |-> room_code]

\* the map() and collect() of prepare_room_names, one item at a time
CollectRoomName(map, item) ==
    Insert(map, RoomKey(item.hotel_code, item.source, item.room_code), item.room_name)

\* ---------------------------------------------------------------- process_input
\* deserialization of a record into struct Input
ParseInput(line) ==
    LET c == deserialize_checkin(line.checkin)
    IN [ok |-> c.ok, item |-> [line EXCEPT !.checkin = c.date]]

NoHotel(item) == [msg |-> "No hotel with id", hotel_code |-> item.hotel_code, room_code |-> ""]

NoRoom(item) ==
    [msg |-> "No room with id", hotel_code |-> item.hotel_code, room_code |-> item.room_code]

InvalidLine == [msg |-> "Ignoring invalid line", hotel_code |-> "", room_code |-> ""]

InvalidHotel == [msg |-> "Ignoring invalid hotel entry", hotel_code |-> "", room_code |-> ""]

NoHotelRef == [id |-> "", name |-> "", category |-> 0, city |-> ""]

\* HashMap::get: an Option, none standing in for the absent value
Get(map, key, none) ==
    IF key \in DOMAIN map THEN [some |-> TRUE, v |-> map[key]]
    ELSE [some |-> FALSE, v |-> none]

\* lookups that stop at a missing hotel: the room-name table is not consulted
LookupShortCircuit(item, hotelMap, roomMap) ==
    LET hotel == Get(hotelMap, item.hotel_code, NoHotelRef)
        room == Get(roomMap, RoomKey(item.hotel_code, item.source, item.room_code), "")
    IN [hotel |-> hotel,
        room |-> room,
        diags |-> IF ~hotel.some THEN <<NoHotel(item)>>
                  ELSE IF ~room.some THEN <<NoRoom(item)>> ELSE <<>>]

\* the two lookups of the second filter_map, each followed by the or_else that
\* prints its diagnostic
Lookup(item, hotelMap, roomMap) ==
    LET hotel == Get(hotelMap, item.hotel_code, NoHotelRef)
        room == Get(roomMap, RoomKey(item.hotel_code, item.source, item.room_code), "")
    IN [hotel |-> hotel,
        room |-> room,
        diags |-> (IF hotel.some THEN <<>> ELSE <<NoHotel(item)>>)
                  \o (IF room.some THEN <<>> ELSE <<NoRoom(item)>>)]

\* a zip that forgets the room lookup
ZipHotelOnly(hotel, room) == [some |-> hotel.some, hotel |-> hotel.v, room |-> room.v]

\* hotel.and_then(|hotel| room.map(|room| (hotel, room)))
Zip(hotel, room) == [some |-> hotel.some /\ room.some, hotel |-> hotel.v, room |-> room.v]

\* Output::new; checks = the build traps integer overflow (debug), else it wraps
OutputNew(input, hotel, room_name, checks) ==
    LET pax == AddU32(input.adults, input.children)
    IN [panic |-> pax.overflow /\ checks,
        out |-> [room_type_with_meal |-> <<input.room_type, " ", input.meal>>,
                 room_code |-> input.room_code,
                 source |-> input.source,
                 hotel_name |-> hotel.name,
                 city_name |-> hotel.city,
                 city_code |-> input.city_code,
                 hotel_category |-> FormatCategory(hotel.category),
                 pax |-> pax.sum,
                 adults |-> input.adults,
                 children |-> input.children,
                 room_name |-> room_name,
                 checkin |-> input.checkin,
                 checkout |-> Succ(input.checkin),
                 price |-> FDiv(input.price, pax.sum)]]

\* ---------------------------------------------------------------- store_output
Header ==
    <<"room_type meal", "room_code", "source", "hotel_name", "city_name", "city_code",
      "hotel_category", "pax", "adults", "children", "room_name", "checkin", "checkout",
      "price">>

\* the fields of struct Output in declaration order, price excepted
FieldsBeforePrice(o) ==
    <<o.room_type_with_meal, o.room_code, o.source, o.hotel_name, o.city_name,
      o.city_code, o.hotel_category, o.pax, o.adults, o.children, o.room_name,
      o.checkin, o.checkout>>

HeaderRow == [kind |-> "header", fields |-> Header]

Row(o) == [kind |-> "row", fields |-> Append(FieldsBeforePrice(o), serialize_price(o.price).s)]

\* csv::Writer::serialize: the first call writes the header, serialising every field
\* value once after its name; then the record is written field by field. A panic in
\* serialize_price leaves an unterminated line behind, which the drop of the writer
\* flushes.
WriterSerialize(out, o) ==
    LET p == serialize_price(o.price)
    IN IF out = <<>>
       THEN IF p.panic
            THEN [panic |-> TRUE, out |-> <<[kind |-> "partial", fields |-> Header]>>]
            ELSE [panic |-> FALSE, out |-> <<HeaderRow, Row(o)>>]
       ELSE IF p.panic
            THEN [panic |-> TRUE,
                  out |-> Append(out, [kind |-> "partial", fields |-> FieldsBeforePrice(o)])]
            ELSE [panic |-> FALSE, out |-> Append(out, Row(o))]

\* ---------------------------------------------------------------- main
\* main with the room file opened only when it is needed
MainSequenceLateOpen ==
    <<"open_input", "open_output", "open_hotels", "prepare_hotels",
      "open_rooms", "prepare_room_names", "store_output">>

\* main with the room names loaded after the primary records were processed
MainSequenceLazyRooms ==
    <<"open_input", "open_output", "open_hotels", "open_rooms",
      "prepare_hotels", "store_output", "prepare_room_names">>

\* the statements of main, in order
MainSequence ==
    <<"open_input", "open_output", "open_hotels", "open_rooms",
      "prepare_hotels", "prepare_room_names", "store_output">>

StageFile ==
    [s \in {"open_input", "open_output", "open_hotels", "open_rooms"} |->
        CASE s = "open_input" -> "input"
          [] s = "open_output" -> "output"
          [] s = "open_hotels" -> "hotels"
          [] OTHER -> "rooms"]

\* the statement after stage s
After(s) ==
    LET i == CHOOSE j \in 1..Len(MainSequence) : MainSequence[j] = s
    IN IF i = Len(MainSequence) THEN "done" ELSE MainSequence[i + 1]

Init ==
    /\ canOpen \in [Files -> BOOLEAN]
    /\ pc = MainSequence[1]
    /\ opened = {}
    /\ hotelLines = <<>>
    /\ hotels = EmptyMap
    /\ roomLines = <<>>
    /\ fieldCount = 0
    /\ rooms = EmptyMap
    /\ eof = {}
    /\ inputRead = <<>>
    /\ processed = <<>>
    /\ output = <<>>
    /\ flushed = FALSE
    /\ diag = <<>>

\* std::fs::File::open / create followed by expect
OpenFile ==
    /\ pc \in DOMAIN StageFile
    /\ IF canOpen[StageFile[pc]]
       THEN /\ opened' = opened \cup {StageFile[pc]}
            /\ pc' = After(pc)
       ELSE /\ pc' = "panicked"
            /\ UNCHANGED opened
    /\ diag' = <<>>
    /\ UNCHANGED <<canOpen, hotelLines, hotels, roomLines, fieldCount, rooms, eof,
                   inputRead, processed, output, flushed>>

\* prepare_hotels, one line of the file
PrepareHotelsLine ==
    /\ pc = "prepare_hotels"
    /\ Len(hotelLines) < MaxHotelLines
    /\ \E line \in HotelLineSet :
        LET parsed == ParseHotel(line)
        IN /\ hotelLines' = Append(hotelLines, line)
           /\ hotels' = IF parsed.ok THEN CollectHotel(hotels, parsed.item) ELSE hotels
           /\ diag' = IF parsed.ok THEN <<>> ELSE <<InvalidHotel>>
    /\ UNCHANGED <<canOpen, pc, opened, roomLines, fieldCount, rooms, eof, inputRead,
                   processed, output, flushed>>

\* prepare_hotels at the end of the file: the mapping is returned
PrepareHotelsEnd ==
    /\ pc = "prepare_hotels"
    /\ pc' = After(pc)
    /\ eof' = eof \cup {"hotels"}
    /\ diag' = <<>>
    /\ UNCHANGED <<canOpen, opened, hotelLines, hotels, roomLines, fieldCount, rooms,
                   inputRead, processed, output, flushed>>

\* prepare_room_names, one record of the file
PrepareRoomNamesLine ==
    /\ pc = "prepare_room_names"
    /\ Len(roomLines) < MaxRoomLines
    /\ \E line \in RoomLineSet :
        LET read == ReadRoomRecord(fieldCount, line)
            parsed == ParseRoomName(line)
            good == read.ok /\ parsed.ok
        IN /\ roomLines' = Append(roomLines, line)
           /\ fieldCount' = read.count
           /\ rooms' = IF good THEN CollectRoomName(rooms, parsed.item) ELSE rooms
           /\ diag' = IF good THEN <<>> ELSE <<InvalidLine>>
    /\ UNCHANGED <<canOpen, pc, opened, hotelLines, hotels, eof, inputRead, processed,
                   output, flushed>>

\* prepare_room_names at the end of the file: the mapping is returned
PrepareRoomNamesEnd ==
    /\ pc = "prepare_room_names"
    /\ pc' = After(pc)
    /\ eof' = eof \cup {"rooms"}
    /\ hotelLines' = <<>>
    /\ roomLines' = <<>>
    /\ fieldCount' = 0
    /\ diag' = <<>>
    /\ UNCHANGED <<canOpen, opened, hotels, rooms, inputRead, processed, output, flushed>>

\* one record of the primary file through process_input and the loop of store_output
ProcessRecord ==
    /\ pc = "store_output"
    /\ Len(inputRead) < MaxInputLines
    /\ \E line \in InputLineSet, checks \in BOOLEAN :
        LET parsed == ParseInput(line)
            item == parsed.item
            look == Lookup(item, hotels, rooms)
            pair == Zip(look.hotel, look.room)
            new == OutputNew(item, pair.hotel, pair.room, checks)
            wrote == WriterSerialize(output, new.out)
        IN /\ inputRead' = Append(inputRead, line)
           /\ IF ~parsed.ok
              THEN /\ diag' = <<InvalidLine>>
                   /\ UNCHANGED <<pc, processed, output>>
              ELSE /\ diag' = look.diags
                   /\ IF ~pair.some
                      THEN UNCHANGED <<pc, processed, output>>
                      ELSE IF new.panic
                      THEN /\ pc' = "panicked"
                           /\ UNCHANGED <<processed, output>>
                      ELSE /\ processed' =
                                Append(processed, [src |-> Len(inputRead) + 1, out |-> new.out])
                           /\ output' = wrote.out
                           /\ pc' = IF wrote.panic THEN "panicked" ELSE pc
    /\ UNCHANGED <<canOpen, opened, hotelLines, hotels, roomLines, fieldCount, rooms, eof,
                   flushed>>

\* the primary file is exhausted: the loop of store_output ends, the writer is flushed
Flush ==
    /\ pc = "store_output"
    /\ pc' = After(pc)
    /\ eof' = eof \cup {"input"}
    /\ flushed' = TRUE
    /\ diag' = <<>>
    /\ UNCHANGED <<canOpen, opened, hotelLines, hotels, roomLines, fieldCount, rooms,
                   inputRead, processed, output>>

Next ==
    \/ OpenFile
    \/ PrepareHotelsLine
    \/ PrepareHotelsEnd
    \/ PrepareRoomNamesLine
    \/ PrepareRoomNamesEnd
    \/ ProcessRecord
    \/ Flush

Spec == Init /\ [][Next]_vars

\* ---------------------------------------------------------------- properties
WellFormed(line) == deserialize_checkin(line.checkin).ok

HotelResolves(line) == line.hotel_code \in DOMAIN hotels

RoomResolves(line) == RoomKey(line.hotel_code, line.source, line.room_code) \in DOMAIN rooms

Resolvable(line) == WellFormed(line) /\ HotelResolves(line) /\ RoomResolves(line)

\* the items process_input yielded for the i-th primary record
ItemsOf(i) == {j \in 1..Len(processed) : processed[j].src = i}

\* a + b without a width: <<carry, high, low>>
ExactSum(a, b) ==
    LET low == a[2] + b[2]
        high == a[1] + b[1] + (low \div Half)
    IN <<high \div Half, high % Half, low % Half>>

\* the complete data rows of the report
IsRow(line) == line.kind = "row"

DataRows == SelectSeq(output, IsRow)

\* a record has gone through the enrichment step in the last step taken
RecordStep == pc \in {"store_output", "panicked"} /\ inputRead # <<>>

LastRecord == inputRead[Len(inputRead)]

IsDigit(c) == \E k \in 1..10 : DigitChars[k] = c

\* C1: every well-formed primary record whose hotel and room key resolve yields
\* exactly one item, with checkout the day after checkin, pax = adults + children,
\* price = input price / pax, the record's fields copied and the names taken from
\* the matched reference entries.
C1_ResolvableRecordYieldsOneRow ==
    \A i \in 1..Len(inputRead) :
        LET r == inputRead[i]
        IN Resolvable(r) =>
            /\ Cardinality(ItemsOf(i)) = 1
            /\ \A j \in ItemsOf(i) :
                LET o == processed[j].out
                IN /\ o.checkin = deserialize_checkin(r.checkin).date
                   /\ o.checkout = Succ(o.checkin)
                   /\ <<0>> \o o.pax = ExactSum(r.adults, r.children)
                   /\ o.price = FDiv(r.price, o.pax)
                   /\ o.adults = r.adults /\ o.children = r.children
                   /\ o.room_code = r.room_code /\ o.source = r.source
                   /\ o.city_code = r.city_code
                   /\ o.hotel_name = hotels[r.hotel_code].name
                   /\ o.city_name = hotels[r.hotel_code].city
                   /\ o.room_name = rooms[RoomKey(r.hotel_code, r.source, r.room_code)]

\* C2: a primary record whose hotel code or whose room key is absent from its
\* mapping yields no item and no row; every row of the report belongs to exactly
\* one primary record, for which both lookups hit.
C2_RowsOnlyForResolvedRecords ==
    /\ \A i \in 1..Len(inputRead) : ~Resolvable(inputRead[i]) => ItemsOf(i) = {}
    /\ \A j \in 1..Len(processed) :
        /\ processed[j].src \in 1..Len(inputRead)
        /\ Resolvable(inputRead[processed[j].src])
        /\ \A k \in 1..Len(processed) : processed[k].src = processed[j].src => k = j
    /\ Len(DataRows) <= Len(processed)
    /\ \A j \in 1..Len(DataRows) :
        SubSeq(DataRows[j].fields, 1, 13) = FieldsBeforePrice(processed[j].out)

C2_Witness ==
    /\ pc = "done"
    /\ \E i, k \in 1..Len(inputRead) :
        /\ WellFormed(inputRead[i]) /\ ~HotelResolves(inputRead[i])
        /\ RoomResolves(inputRead[i])
        /\ WellFormed(inputRead[k]) /\ HotelResolves(inputRead[k])
        /\ ~RoomResolves(inputRead[k])

C4_AbortOnlyOnOpenFailure == pc = "panicked" => opened # Files

\* C5: the price of every row is the decimal digits of round(p * 100) with a point
\* two digits from the right: at least one integer digit, a point, two digits.
C5_PriceHasTwoDecimals ==
    \A j \in 1..Len(DataRows) :
        processed[j].out.price.k = "fin" =>
            LET s == DataRows[j].fields[14]
            IN /\ Len(s) >= 4
               /\ s[Len(s) - 2] = "."
               /\ \A k \in (1..Len(s)) \ {Len(s) - 2} : IsDigit(s[k])
               /\ SubSeq(s, 1, Len(s) - 3) \o SubSeq(s, Len(s) - 1, Len(s))
                    = Display(Round100(processed[j].out.price))

\* C6: the report of a run is the header row followed by one row per item
\* store_output received, in the order received.
C6_HeaderThenOneRowPerItem ==
    pc = "done" =>
        output = <<HeaderRow>> \o [j \in 1..Len(processed) |-> Row(processed[j].out)]

\* C7: a malformed line changes nothing but itself: each mapping is what the
\* well-formed lines alone give (the last well-formed line of a key decides its
\* entry), and the items of the primary records keep the order of the records.
C7_MalformedLinesAreInert ==
    /\ pc \in {"prepare_hotels", "prepare_room_names"} =>
        \A i \in 1..Len(hotelLines) :
            (HotelFields \subseteq DOMAIN hotelLines[i]) =>
                hotelLines[i].id \in DOMAIN hotels
    /\ pc = "prepare_room_names" =>
        \A i \in 1..Len(roomLines) :
            Len(roomLines[i]) = 4 =>
                RoomKey(roomLines[i][1], roomLines[i][2], roomLines[i][4]) \in DOMAIN rooms
    /\ \A j, k \in 1..Len(processed) : j < k => processed[j].src < processed[k].src

\* C8: after any number of lines each mapping has exactly the keys of the lines
\* parsed successfully, and the entry of a key is that of the last such line.
C8_LaterLineWins ==
    /\ pc \in {"prepare_hotels", "prepare_room_names"} =>
        LET good == {i \in 1..Len(hotelLines) : HotelFields \subseteq DOMAIN hotelLines[i]}
        IN /\ DOMAIN hotels = {hotelLines[i].id : i \in good}
           /\ \A i \in good :
                (\A k \in good : hotelLines[k].id = hotelLines[i].id => k <= i) =>
                    /\ hotels[hotelLines[i].id].name = hotelLines[i].name
                    /\ hotels[hotelLines[i].id].category = hotelLines[i].category
                    /\ hotels[hotelLines[i].id].city = hotelLines[i].city
    /\ pc = "prepare_room_names" =>
        LET good == {i \in 1..Len(roomLines) :
                        Len(roomLines[i]) = 4 /\ Len(roomLines[1]) = 4}
            KeyOf(i) == RoomKey(roomLines[i][1], roomLines[i][2], roomLines[i][4])
        IN /\ DOMAIN rooms = {KeyOf(i) : i \in good}
           /\ \A i \in good :
                (\A k \in good : KeyOf(k) = KeyOf(i) => k <= i) =>
                    rooms[KeyOf(i)] = roomLines[i][3]

C8_Witness ==
    /\ pc = "prepare_room_names"
    /\ \E i, k \in 1..Len(hotelLines) :
        /\ i < k
        /\ HotelFields \subseteq DOMAIN hotelLines[i]
        /\ HotelFields \subseteq DOMAIN hotelLines[k]
        /\ hotelLines[i].id = hotelLines[k].id
        /\ hotelLines[i].name # hotelLines[k].name
        /\ Cardinality(DOMAIN hotels) = 1
    /\ \E i, k \in 1..Len(roomLines) :
        /\ i < k
        /\ Len(roomLines[i]) = 4 /\ Len(roomLines[k]) = 4
        /\ roomLines[i][1] = roomLines[k][1]
        /\ roomLines[i][3] # roomLines[k][3]
        /\ Cardinality(DOMAIN rooms) = 1

\* C9: a primary record is read only after both reference streams were read to
\* their end, and from the first primary record on neither mapping changes.
C9_LoadThenReadBarrier ==
    [][/\ inputRead' # inputRead => {"hotels", "rooms"} \subseteq eof
       /\ (inputRead # <<>> \/ inputRead' # <<>>) => (hotels' = hotels /\ rooms' = rooms)]_vars

C9_Witness ==
    /\ pc = "done"
    /\ Len(inputRead) = 2
    /\ Len(processed) = 2
    /\ DOMAIN hotels # {}
    /\ DOMAIN rooms # {}

\* C10: the files are opened in the order input, output, hotels, rooms, and until
\* all four are open nothing is read, loaded or written; a file that cannot be
\* opened ends the run in that state.
C10_OpenFailureStopsBeforeProcessing ==
    /\ opened \in {{}, {"input"}, {"input", "output"}, {"input", "output", "hotels"}, Files}
    /\ opened # Files =>
        /\ hotelLines = <<>> /\ roomLines = <<>> /\ inputRead = <<>>
        /\ DOMAIN hotels = {} /\ DOMAIN rooms = {}
        /\ eof = {} /\ processed = <<>> /\ output = <<>> /\ ~flushed
    /\ (\E f \in Files : ~canOpen[f]) => (opened # Files /\ pc # "done")

C10_Witness ==
    /\ pc = "panicked"
    /\ opened = {"input", "output", "hotels"}
    /\ ~canOpen["rooms"]

====
